---- MODULE Spec2Model ----
(***************************************************************************)
(* A model of the analysis routines of appaloosa (src/analysis.py):        *)
(* k2_mtg_plots, compare_2_lit, benchmark, fbeye_compare, paper1_plots.    *)
(* Every routine is a sequential batch computation over files on disk; a   *)
(* state is the files, the routine's local arrays and its position.        *)
(*                                                                         *)
(* Numbers are scaled integers: chi-square in units, equivalent duration   *)
(* in tenths, amplitude in thousandths, KS probability in hundredths,      *)
(* magnitudes and periods in units, bin energies in tenths of a dex.       *)
(***************************************************************************)
EXTENDS Integers, Sequences, FiniteSets, TLC

VARIABLES
    pc,         \* position of the running routine ("idle" between invocations)
    err,        \* the unhandled exception that ended the routine, or "none"
    stdout,     \* the lines printed by the running invocation
    i,          \* loop index (0-based, as in the code)
    rerun,      \* the rerun argument of the running invocation
    missing,    \* the input file the latest read could not open, or "none"
    \* ---- k2_mtg_plots / compare_2_lit
    kid,        \* object IDs in get_objects.out
    kic,        \* rows of kic.txt.gz: kicnum and the g, r, i magnitudes
    ptab,       \* rows of Table_Periodic.txt: pnum and prot
    data,       \* the array last loaded from a .flare file
    n_flares1, n_flares2, n_flares3, n_flares4,
    gi_color, ri_color, periods,
    outfile,    \* outfile on disk (text rows), or Absent
    plotted,    \* the arrays the latest finished rerun=True invocation plotted
    \* ---- benchmark / fbeye_compare
    apfile,     \* the appaloosa .flare file: header lines and flare rows
    fbfile,     \* the FBEYE table: flare rows
    lcfile,     \* the light curve: sample times
    apdata, fbdata, time,
    aptime, fbtime,
    n1, n2, n3, \* benchmark's ratios, each <<numerator, denominator>>
    n4_i,
    x_sel,      \* x_any (benchmark) or x_ap (fbeye_compare) of the last iteration
    ret,        \* what benchmark returned
    \* ---- paper1_plots
    fdata,      \* rows of condorfile, one per data portion of a star
    kicdata,    \* rows of kicfile
    rotdata,    \* rows of the rotation period catalogue
    kicnum_c,   \* the stars of fdata, in order of first appearance
    k,          \* index of the big loop (0-based)
    arrays,     \* the fourteen per-star arrays, by name
    fsum, fnorm, flare_tot,
    ffd_x, ffd_y, ffd_ok,
    mtch,       \* rows of kicdata matching the star of the last iteration
    npz,        \* ap_analysis_loop.npz on disk, or Absent
    looped,     \* the arrays the latest finished big loop ended with
    statsfile   \* the lines of the statistics file on disk


commonVars == <<pc, err, stdout, i, rerun, missing>>
k2Arrays == <<n_flares1, n_flares2, n_flares3, n_flares4, gi_color, ri_color, periods>>
k2Files == <<kid, kic, ptab>>
k2Vars == <<kid, kic, ptab, data, n_flares1, n_flares2, n_flares3,
            n_flares4, gi_color, ri_color, periods, outfile, plotted>>
benchFiles == <<apfile, fbfile, lcfile>>
benchLocals == <<apdata, fbdata, time, aptime, fbtime, n1, n2, n3, n4_i, x_sel>>
benchVars == <<apfile, fbfile, lcfile, apdata, fbdata, time, aptime, fbtime, n1, n2, n3,
               n4_i, x_sel, ret>>
paperFiles == <<fdata, kicdata, rotdata>>
paperStar == <<fsum, fnorm, flare_tot, ffd_x, ffd_y, ffd_ok, mtch>>
paperVars == <<fdata, kicdata, rotdata, kicnum_c, k, arrays, fsum, fnorm, flare_tot,
               ffd_x, ffd_y, ffd_ok, mtch, npz, looped, statsfile>>
vars == <<commonVars, k2Vars, benchVars, paperVars>>
\* what the actions of one routine leave alone: the variables of the other routines
k2Others == <<benchVars, paperVars>>
benchOthers == <<k2Vars, paperVars>>
paperOthers == <<k2Vars, benchVars>>

\* a file on disk (or the array loaded from it): present with its rows, or absent
Absent == [present |-> FALSE, rows |-> <<>>]
File(rows) == [present |-> TRUE, rows |-> rows]

(***************************************************************************)
(* Bounds of the model                                                     *)
(***************************************************************************)
MaxObj == 2
MaxRows == 2
MaxFlares == 2
MaxCompareRows == 4

(***************************************************************************)
(* Generic helpers                                                         *)
(***************************************************************************)
RECURSIVE SeqsUpTo(_, _)
SeqsUpTo(S, n) ==
    IF n = 0 THEN {<<>>}
    ELSE LET shorter == SeqsUpTo(S, n - 1)
         IN  shorter \cup {Append(s, x) : s \in {t \in shorter : Len(t) = n - 1}, x \in S}

Range(s) == {s[idx] : idx \in DOMAIN s}

Const(n, v) == [idx \in 1..n |-> v]

RECURSIVE Pow10(_)
Pow10(n) == IF n <= 0 THEN 1 ELSE 10 * Pow10(n - 1)

Abs(x) == IF x < 0 THEN -x ELSE x

(***************************************************************************)
(* Text caches: np.savetxt writes every number with its default format     *)
(* '%.18e' (sign, 19 significant decimal digits, decimal exponent);        *)
(* np.loadtxt parses the tokens back.  A token is [neg, mant, nd, exp]:    *)
(* nd digits are printed, mant holds them up to the last nonzero one, and  *)
(* the token stands for (-1)^neg * mant[1].mant[2..] * 10^exp.             *)
(***************************************************************************)
SavetxtPrecision == 18

RECURSIVE Digits(_)
Digits(n) == IF n < 10 THEN <<n>> ELSE Append(Digits(n \div 10), n % 10)

RECURSIVE StripZeros(_)
StripZeros(d) ==
    IF Len(d) > 1 /\ d[Len(d)] = 0 THEN StripZeros(SubSeq(d, 1, Len(d) - 1)) ELSE d

FormatE(x, prec) ==
    LET a == Abs(x)
        d == Digits(a)
        L == Len(d)
    IN  IF L <= prec + 1
        THEN [neg |-> x < 0, mant |-> StripZeros(d), nd |-> prec + 1, exp |-> L - 1]
        ELSE LET cut == Pow10(L - prec - 1)
                 keep == a \div cut
                 rem == a % cut
                 up == (2 * rem > cut) \/ (2 * rem = cut /\ keep % 2 = 1)
                 kept == IF up THEN keep + 1 ELSE keep
             IN  IF Len(Digits(kept)) > prec + 1
                 THEN [neg |-> x < 0, mant |-> StripZeros(Digits(kept \div 10)),
                       nd |-> prec + 1, exp |-> L]
                 ELSE [neg |-> x < 0, mant |-> StripZeros(Digits(kept)),
                       nd |-> prec + 1, exp |-> L - 1]

RECURSIVE MantValue(_, _, _)
MantValue(mant, exp, idx) ==
    IF idx > Len(mant) \/ exp - idx + 1 < 0 THEN 0
    ELSE mant[idx] * Pow10(exp - idx + 1) + MantValue(mant, exp, idx + 1)

ParseFloat(tok) ==
    LET m == MantValue(tok.mant, tok.exp, 1)
    IN  IF tok.neg THEN -m ELSE m

\* np.savetxt(outfile, np.asarray(cols).T, delimiter=','): one text row per object
SavetxtLowPrecision(cols) ==
    [r \in 1..Len(cols[1]) |-> [c \in 1..Len(cols) |-> FormatE(cols[c][r], 0)]]

Savetxt(cols) ==
    [r \in 1..Len(cols[1]) |-> [c \in 1..Len(cols) |-> FormatE(cols[c][r], SavetxtPrecision)]]

\* np.loadtxt(outfile, delimiter=',', dtype='float', unpack=True): one array per column
LoadtxtUnpack(file) ==
    [c \in 1..Len(file[1]) |-> [r \in 1..Len(file) |-> ParseFloat(file[r][c])]]

\* np.loadtxt squeezes: fewer than two data rows give an array with ndim 1
LoadtxtNdim(rows) == IF Len(rows) >= 2 THEN 2 ELSE 1

\* len() of the array np.loadtxt(..., usecols=(0,), unpack=True) returns: a single
\* line is squeezed to a 0-d array, which has no len()
HasLen(ids) == Len(ids) >= 2

(***************************************************************************)
(* k2_mtg_plots and compare_2_lit                                          *)
(***************************************************************************)
\* the columns of a .flare row the cuts read: data[:,9], data[:,14], data[:,3], data[:,13]
FlareRowValues ==
    { [chisq |-> 9,  ED |-> 0, amp |-> 4, KS_p |-> 6],
      [chisq |-> 10, ED |-> 1, amp |-> 5, KS_p |-> 5],
      [chisq |-> 15, ED |-> 2, amp |-> 5, KS_p |-> 5] }

\* the .flare files: up to MaxRows rows, listed by growing chi-square
FlareFiles ==
    {File(rows) : rows \in {t \in SeqsUpTo(FlareRowValues, MaxRows) :
                                \A idx \in 1..(Len(t) - 1) : t[idx].chisq <= t[idx + 1].chisq}}

\* KIC numbers in the catalogues: objects 1 and 2, and 0 for any other star
CatalogueIds == {0, 1, 2}
KicRowValues == [num : CatalogueIds, g : {16}, r : {15}, i : {13}]
\* the period table lists object 1 or other stars
PRowValues == [num : {0, 1}, prot : {7}]
KicTables == {<<a, b>> : a, b \in KicRowValues}
PTables == {<<a, b>> : a, b \in PRowValues}
Ascending(t) == \A idx \in 1..(Len(t) - 1) : t[idx].num <= t[idx + 1].num

\* the cuts of lines 250-261
Good1(row) == row.chisq >= 10 /\ row.ED >= 1
Good2(row) == row.chisq >= 15 /\ row.ED >= 2
Good3(row) == row.amp >= 5 /\ row.KS_p <= 5
Good4(row) == row.amp >= 5 /\ row.KS_p <= 5 /\ row.chisq >= 15

\* the cut numbered as its count array n_flaresN
Good(cut, row) ==
    CASE cut = 1 -> Good1(row)
      [] cut = 2 -> Good2(row)
      [] cut = 3 -> Good3(row)
      [] cut = 4 -> Good4(row)

\* len(np.where(cut)[0])
CountWhere(rows, cut) == Cardinality({idx \in DOMAIN rows : Good(cut, rows[idx])})

\* n_flaresN[i] after the try block of one iteration, given the file read (or Absent)
Counted(old, file, cut) ==
    IF file.present /\ LoadtxtNdim(file.rows) = 2 THEN CountWhere(file.rows, cut) ELSE old

\* np.where(kicnum == kid[i])[0]
MatchesNothing(table, id) == {}

Matches(table, id) == {idx \in DOMAIN table : table[idx].num = id}

First(S) == CHOOSE idx \in S : \A m \in S : idx <= m

\* a printed line: its text and the object or index it names (0 when it names none)
Line(text) == [text |-> text, obj |-> 0]
LineAbout(text, n) == [text |-> text, obj |-> n]

Raise(e) == pc' = "error" /\ err' = e

\* the variables of benchmark and fbeye_compare while neither runs
NoRatio == <<0, 0>>
NoReturn == [returned |-> FALSE, N_ap |-> 0, N_fb |-> 0,
             n1 |-> NoRatio, n2 |-> NoRatio, n3 |-> NoRatio, n4 |-> NoRatio]
BenchLocalsUnset ==
    /\ apdata = <<>> /\ fbdata = <<>> /\ time = <<>>
    /\ aptime = <<>> /\ fbtime = <<>>
    /\ n1 = NoRatio /\ n2 = NoRatio /\ n3 = NoRatio
    /\ n4_i = <<>> /\ x_sel = {}
BenchUnused ==
    /\ apfile = [header |-> 0, rows |-> <<>>] /\ fbfile = <<>> /\ lcfile = <<>>
    /\ BenchLocalsUnset
    /\ ret = NoReturn

\* the fourteen arrays of paper1_plots before they are assigned
NoArrays ==
    [Nflare |-> <<>>, Nflare68 |-> <<>>, rate_E |-> <<>>, fit_E |-> <<>>, fit_Eerr |-> <<>>,
     ffd_ab |-> <<>>, gr_all |-> <<>>, gi_all |-> <<>>, meanE |-> <<>>, maxE |-> <<>>,
     Prot_all |-> <<>>, ED_all |-> <<>>, dur_all |-> <<>>, logg_all |-> <<>>]

NoNpz == [present |-> FALSE, rows |-> NoArrays]

PaperLocalsUnset ==
    /\ kicnum_c = <<>> /\ k = 0
    /\ arrays = NoArrays
    /\ fsum = <<>> /\ fnorm = <<>> /\ flare_tot = <<>>
    /\ ffd_x = <<>> /\ ffd_y = <<>> /\ ffd_ok = {}
    /\ mtch = {}

\* the variables of paper1_plots while it does not run
PaperUnused ==
    /\ fdata = <<>> /\ kicdata = <<>> /\ rotdata = <<>>
    /\ PaperLocalsUnset
    /\ npz = NoNpz
    /\ looped = NoNpz
    /\ statsfile = <<>>

\* the locals of an invocation before it has assigned them
K2Locals ==
    /\ i = 0
    /\ data = Absent
    /\ n_flares1 = <<>> /\ n_flares2 = <<>> /\ n_flares3 = <<>> /\ n_flares4 = <<>>
    /\ gi_color = <<>> /\ ri_color = <<>> /\ periods = <<>>

K2Init ==
    /\ pc = "idle"
    /\ err = "none"
    /\ stdout = <<>>
    /\ rerun = FALSE
    /\ missing = "none"
    /\ kid \in {[idx \in 1..n |-> idx] : n \in 1..MaxObj}
    /\ kic \in {t \in KicTables : Ascending(t)}
    /\ ptab \in {t \in PTables : Ascending(t)}
    /\ K2Locals
    /\ outfile = Absent
    /\ plotted = Absent
    /\ BenchUnused
    /\ PaperUnused

\* `if rerun is True: ... else: ...` (lines 195 and 590): where the routine goes on
IfRerunAlways(r, loop, cache) == loop

IfRerun(r, loop, cache) == IF r THEN loop ELSE cache

\* lines 175-194: entry, read the object list
K2Call(r) ==
    /\ pc = "idle"
    /\ rerun' = r
    /\ stdout' = <<>>
    /\ plotted' = (IF r THEN Absent ELSE plotted)
    /\ \E found \in BOOLEAN :
         IF ~found
         THEN Raise("IOError") /\ missing' = "objects"
         ELSE /\ pc' = IfRerun(r, "k2_ingest", "k2_read_cache") /\ err' = err
              /\ missing' = "none"
    /\ UNCHANGED <<k2Files, i, data, k2Arrays, outfile, k2Others>>

\* lines 196-226: read the catalogues, set up the arrays
K2Ingest ==
    /\ pc = "k2_ingest"
    /\ \E kicFound, pFound \in BOOLEAN :
         IF ~kicFound
         THEN Raise("IOError") /\ missing' = "kic" /\ UNCHANGED <<stdout, i, k2Arrays>>
         ELSE IF ~pFound
         THEN /\ Raise("IOError") /\ missing' = "periods"
              /\ stdout' = Append(stdout, Line("KIC data ingested"))
              /\ UNCHANGED <<i, k2Arrays>>
         ELSE IF ~HasLen(kid)
         THEN /\ Raise("TypeError")
              /\ stdout' = stdout \o <<Line("KIC data ingested"), Line("Period data ingested")>>
              /\ UNCHANGED <<i, k2Arrays, missing>>
         ELSE /\ pc' = "k2_loop" /\ err' = err
              /\ missing' = missing
              /\ stdout' = stdout \o <<Line("KIC data ingested"), Line("Period data ingested"),
                                       Line("Starting loop through aprun files")>>
              /\ gi_color' = Const(Len(kid), -99)
              /\ ri_color' = Const(Len(kid), -99)
              /\ periods' = Const(Len(kid), -99)
              /\ n_flares1' = Const(Len(kid), 0)
              /\ n_flares2' = Const(Len(kid), 0)
              /\ n_flares3' = Const(Len(kid), 0)
              /\ n_flares4' = Const(Len(kid), 0)
              /\ i' = 0
    /\ UNCHANGED <<rerun, k2Files, data, outfile, plotted, k2Others>>

CheckpointEvery == 1000

\* line 283: if (i % 1000) == 0
IsCheckpointNever(n) == FALSE

IsCheckpoint(n) == n % CheckpointEvery = 0

\* np.asarray([n_flares1, n_flares2, n_flares3, n_flares4, gi_color, ri_color, periods])
Outdata(c1, c2, c3, c4, gi, ri, per) == <<c1, c2, c3, c4, gi, ri, per>>

\* lines 268-269: the handler of the failed .flare read prints apfile + ' was not found!'
ExceptIOErrorSilent(out, id) == out

ExceptIOError(out, id) == Append(out, LineAbout(" was not found!", id))

\* lines 227-287: one iteration of the loop over the objects
K2LoopBody ==
    /\ pc = "k2_loop"
    /\ i < Len(kid)
    /\ \E file \in FlareFiles \cup {Absent} :
         LET idx == i + 1
             id == kid[idx]
             cnt1 == [n_flares1 EXCEPT ![idx] = Counted(@, file, 1)]
             cnt2 == [n_flares2 EXCEPT ![idx] = Counted(@, file, 2)]
             cnt3 == [n_flares3 EXCEPT ![idx] = Counted(@, file, 3)]
             cnt4 == [n_flares4 EXCEPT ![idx] = Counted(@, file, 4)]
             warned == IF ~file.present THEN ExceptIOError(stdout, id) ELSE stdout
             km == Matches(kic, id)
             pm == Matches(ptab, id)
             gi == IF km # {} THEN [gi_color EXCEPT ![idx] = kic[First(km)].g - kic[First(km)].i]
                   ELSE gi_color
             ri == IF km # {} THEN [ri_color EXCEPT ![idx] = kic[First(km)].r - kic[First(km)].i]
                   ELSE ri_color
             per == IF pm # {} THEN [periods EXCEPT ![idx] = ptab[First(pm)].prot]
                    ELSE periods
         IN  /\ data' = (IF file.present THEN file ELSE data)
             /\ missing' = (IF file.present THEN "none" ELSE ".flare")
             /\ n_flares1' = cnt1 /\ n_flares2' = cnt2 /\ n_flares3' = cnt3 /\ n_flares4' = cnt4
             /\ IF Cardinality(km) > 1
                THEN \* an array of several matches cannot be stored in gi_color[i]
                     /\ Raise("ValueError")
                     /\ stdout' = warned
                     /\ UNCHANGED <<i, gi_color, ri_color, periods, outfile>>
                ELSE IF Cardinality(pm) > 1
                THEN /\ Raise("ValueError")
                     /\ stdout' = warned
                     /\ gi_color' = gi /\ ri_color' = ri
                     /\ UNCHANGED <<i, periods, outfile>>
                ELSE /\ gi_color' = gi /\ ri_color' = ri /\ periods' = per
                     /\ IF IsCheckpoint(i)
                        THEN /\ outfile' = File(Savetxt(Outdata(cnt1, cnt2, cnt3, cnt4, gi, ri, per)))
                             /\ stdout' = Append(warned, LineAbout("checkpoint", i))
                        ELSE /\ outfile' = outfile
                             /\ stdout' = warned
                     /\ i' = i + 1
                     /\ UNCHANGED <<pc, err>>
    /\ UNCHANGED <<rerun, k2Files, plotted, k2Others>>

\* lines 289-292: the final save
K2LoopEnd ==
    /\ pc = "k2_loop"
    /\ i = Len(kid)
    /\ outfile' = File(Savetxt(Outdata(n_flares1, n_flares2, n_flares3, n_flares4,
                                       gi_color, ri_color, periods)))
    /\ pc' = "k2_plot"
    /\ UNCHANGED <<err, stdout, rerun, missing, k2Files, i, data, k2Arrays, plotted, k2Others>>

\* lines 294-297: rerun=False reads the cache
K2ReadCache ==
    /\ pc = "k2_read_cache"
    /\ stdout' = Append(stdout, Line("Reading previous results"))
    /\ IF ~outfile.present
       THEN Raise("IOError") /\ missing' = "outfile" /\ UNCHANGED k2Arrays
       ELSE LET cols == LoadtxtUnpack(outfile.rows)
            IN  /\ missing' = missing
                /\ n_flares1' = cols[1] /\ n_flares2' = cols[2]
                /\ n_flares3' = cols[3] /\ n_flares4' = cols[4]
                /\ gi_color' = cols[5] /\ ri_color' = cols[6] /\ periods' = cols[7]
                /\ pc' = "k2_plot" /\ err' = err
    /\ UNCHANGED <<rerun, k2Files, i, data, outfile, plotted, k2Others>>

\* the locals are gone when the routine returns
Return ==
    /\ pc' = "idle"
    /\ rerun' = FALSE
    /\ i' = 0
    /\ data' = Absent
    /\ n_flares1' = <<>> /\ n_flares2' = <<>> /\ n_flares3' = <<>> /\ n_flares4' = <<>>
    /\ gi_color' = <<>> /\ ri_color' = <<>> /\ periods' = <<>>
    /\ UNCHANGED <<err, stdout, missing, k2Files, outfile, k2Others>>

\* lines 301-355: the figures are drawn from the seven arrays, then the routine returns
K2Plot ==
    /\ pc = "k2_plot"
    /\ plotted' = (IF rerun
                   THEN File(Outdata(n_flares1, n_flares2, n_flares3, n_flares4,
                                     gi_color, ri_color, periods))
                   ELSE plotted)
    /\ Return

\* lines 358-407: compare_2_lit reads the cache, the object list and the literature tables
Compare2LitRead ==
    /\ pc = "idle"
    /\ stdout' = <<>>
    /\ \E firstMissing \in {"none", "objects", "pitkin", "balona", "shibayama"} :
         IF ~outfile.present
         THEN Raise("IOError") /\ missing' = "outfile" /\ UNCHANGED k2Arrays
         ELSE IF firstMissing \in {"objects", "pitkin"}
         THEN Raise("IOError") /\ missing' = firstMissing /\ UNCHANGED k2Arrays
         ELSE IF ~HasLen(kid)
         THEN Raise("TypeError") /\ missing' = "none" /\ UNCHANGED k2Arrays
         ELSE IF firstMissing \in {"balona", "shibayama"}
         THEN Raise("IOError") /\ missing' = firstMissing /\ UNCHANGED k2Arrays
         ELSE LET cols == LoadtxtUnpack(outfile.rows)
              IN  /\ missing' = "none"
                  /\ n_flares1' = cols[1] /\ n_flares2' = cols[2]
                  /\ n_flares3' = cols[3] /\ n_flares4' = cols[4]
                  /\ gi_color' = cols[5] /\ ri_color' = cols[6] /\ periods' = cols[7]
                  /\ pc' = "c2l_plot" /\ err' = err
    /\ UNCHANGED <<rerun, k2Files, i, data, outfile, plotted, k2Others>>

\* lines 412-424: the scatter plots, then the routine returns
Compare2LitPlot ==
    /\ pc = "c2l_plot"
    /\ UNCHANGED plotted
    /\ Return

K2Next ==
    \/ \E r \in BOOLEAN : K2Call(r)
    \/ K2Ingest
    \/ K2LoopBody
    \/ K2LoopEnd
    \/ K2ReadCache
    \/ K2Plot
    \/ Compare2LitRead
    \/ Compare2LitPlot

SpecK2 == K2Init /\ [][K2Next]_vars

(***************************************************************************)
(* Claims about k2_mtg_plots                                               *)
(***************************************************************************)
WarnedIn(out, idx) == LineAbout(" was not found!", kid[idx]) \in Range(out)
Warned(idx) == WarnedIn(stdout, idx)

\* what the catalogues hold for an object that is listed at most once
Listed(table, id) == \E n \in DOMAIN table : table[n].num = id
RowOf(table, id) == table[CHOOSE n \in DOMAIN table : table[n].num = id]
ExpectedGi(id) == IF Listed(kic, id) THEN RowOf(kic, id).g - RowOf(kic, id).i ELSE -99
ExpectedRi(id) == IF Listed(kic, id) THEN RowOf(kic, id).r - RowOf(kic, id).i ELSE -99
ExpectedPeriod(id) == IF Listed(ptab, id) THEN RowOf(ptab, id).prot ELSE -99

C5_CacheRoundTrip ==
    (pc \in {"k2_plot", "c2l_plot"} /\ ~rerun /\ plotted.present) =>
        Outdata(n_flares1, n_flares2, n_flares3, n_flares4,
                gi_color, ri_color, periods) = plotted.rows

\* C5 witness: a rerun=False run plots after a rerun=True run that counted flares,
\* matched one object and left another at the -99 defaults
C5_Witness ==
    /\ pc = "k2_plot" /\ ~rerun /\ plotted.present
    /\ \E idx \in DOMAIN n_flares4 : n_flares4[idx] > 0 /\ n_flares1[idx] > n_flares4[idx]
    /\ \E idx \in DOMAIN gi_color : gi_color[idx] = 3 /\ periods[idx] = 7
    /\ \E idx \in DOMAIN gi_color : gi_color[idx] = -99 /\ periods[idx] = -99

\* C10: after the iteration of an object whose .flare file was found, each of the
\* four counts of that object equals the number of rows of the file that satisfy
\* the cut, whatever the number of rows.
C10_CountsEqualRows ==
    (pc = "k2_loop" /\ i >= 1 /\ data.present /\ ~Warned(i)) =>
        /\ n_flares1[i] = CountWhere(data.rows, 1)
        /\ n_flares2[i] = CountWhere(data.rows, 2)
        /\ n_flares3[i] = CountWhere(data.rows, 3)
        /\ n_flares4[i] = CountWhere(data.rows, 4)

\* the seven arrays of the running invocation, and the seven columns read back from
\* a written outfile
Arrays7 == Outdata(n_flares1, n_flares2, n_flares3, n_flares4, gi_color, ri_color, periods)
InitialRow == <<0, 0, 0, 0, -99, -99, -99>>
RowOfArrays(cols, n) == [c \in 1..7 |-> cols[c][n]]

K2Unused ==
    /\ kid = <<>> /\ kic = <<>> /\ ptab = <<>>
    /\ data = Absent
    /\ n_flares1 = <<>> /\ n_flares2 = <<>> /\ n_flares3 = <<>> /\ n_flares4 = <<>>
    /\ gi_color = <<>> /\ ri_color = <<>> /\ periods = <<>>
    /\ outfile = Absent
    /\ plotted = Absent

(***************************************************************************)
(* benchmark and fbeye_compare                                             *)
(*                                                                         *)
(* A flare row is modelled by its first five columns (0-based, as in the   *)
(* code).  Appaloosa row: t_start, t_stop, t_peak, amplitude, FWHM.  FBEYE *)
(* row: index of flare start, index of flare stop, t_start, t_stop, t_peak *)
(* (the column list of lines 138-152).                                     *)
(***************************************************************************)
\* the sample times of the light curve; sample idx (0-based) is taken at TimeGrid[idx + 1]
TimeGrid == <<1, 2, 3, 4>>
Intervals == {iv \in Range(TimeGrid) \X Range(TimeGrid) : iv[1] <= iv[2]}
SampleIndex(t) == CHOOSE idx \in 0..(Len(TimeGrid) - 1) : TimeGrid[idx + 1] = t

ApRow(iv) == <<iv[1], iv[2], iv[1], 0, 0>>
FbRow(iv) == <<SampleIndex(iv[1]), SampleIndex(iv[2]), iv[1], iv[2], iv[1]>>
NumCols(table) == Len(table[1])
Col(row, c) == row[c + 1]

\* np.loadtxt(apfile, skiprows=n, comments='#'): the first n lines are dropped, then
\* comment lines; the header of a .flare file is 4 or 5 comment lines
LoadRows(file, skiprows) ==
    IF skiprows <= file.header THEN file.rows
    ELSE SubSeq(file.rows, skiprows - file.header + 1, Len(file.rows))

Zeros(n) == Const(n, 0)

RECURSIVE Sum(_)
Sum(s) == IF s = <<>> THEN 0 ELSE s[1] + Sum(Tail(s))

\* lines 447-449: samples inside any appaloosa flare
ApMask(rows, t) ==
    [idx \in DOMAIN t |->
        IF \E r \in DOMAIN rows : t[idx] >= Col(rows[r], 0) /\ t[idx] <= Col(rows[r], 1)
        THEN 1 ELSE 0]

\* lines 451-453: samples inside any FBEYE flare
FbMask(rows, t) ==
    [idx \in DOMAIN t |->
        IF \E r \in DOMAIN rows : t[idx] >= Col(rows[r], 0) /\ t[idx] <= Col(rows[r], 1)
        THEN 1 ELSE 0]

\* the test of lines 472-474 (and 166-168) on one appaloosa interval [a0, a1] and one
\* FBEYE interval [f0, f1]
OverlapNoContain(a0, a1, f0, f1) ==
    \/ (a0 >= f0 /\ a0 <= f1)
    \/ (a1 >= f0 /\ a1 <= f1)

Overlap(a0, a1, f0, f1) ==
    \/ (a0 <= f0 /\ a1 >= f1)
    \/ (a0 >= f0 /\ a0 <= f1)
    \/ (a1 >= f0 /\ a1 <= f1)

\* benchmark's x_any for FBEYE flare j (0-based): rows of apdata, columns of fbdata[j]
XAny(ap, fb, j) ==
    {r \in 0..(Len(ap) - 1) :
        Overlap(Col(ap[r + 1], 0), Col(ap[r + 1], 1), Col(fb[j + 1], 2), Col(fb[j + 1], 3))}

\* fbeye_compare's x_ap at step j: apdata[0,:] and apdata[1,:] are the first two ROWS,
\* fbdata[2,j] and fbdata[3,j] are column j of the third and fourth rows
XAp(ap, fb, j) ==
    {c \in 0..(NumCols(ap) - 1) :
        Overlap(Col(ap[1], c), Col(ap[2], c), Col(fb[3], j), Col(fb[4], j))}

\* both tables list their flares in time order
InTimeOrder(ivs) ==
    \A idx \in 1..(Len(ivs) - 1) :
        \/ ivs[idx][1] < ivs[idx + 1][1]
        \/ (ivs[idx][1] = ivs[idx + 1][1] /\ ivs[idx][2] <= ivs[idx + 1][2])
FlareLists == {ivs \in SeqsUpTo(Intervals, MaxFlares) : InTimeOrder(ivs)}

BenchInit ==
    /\ pc = "idle" /\ err = "none" /\ stdout = <<>> /\ i = 0
    /\ rerun = FALSE /\ missing = "none"
    /\ apfile \in {[header |-> 4, rows |-> [idx \in DOMAIN ivs |-> ApRow(ivs[idx])]] :
                      ivs \in FlareLists}
    /\ fbfile \in {[idx \in DOMAIN ivs |-> FbRow(ivs[idx])] : ivs \in FlareLists}
    /\ lcfile = TimeGrid
    /\ BenchLocalsUnset
    /\ ret = NoReturn
    /\ K2Unused
    /\ PaperUnused

\* lines 427-445: run appaloosa, read the three files
BenchLoad ==
    /\ pc = "idle"
    /\ ret' = NoReturn
    /\ \E firstMissing \in {"none", "apfile", "fbeyefile", "lc"} :
         IF firstMissing # "none"
         THEN /\ Raise("IOError") /\ missing' = firstMissing
              /\ UNCHANGED <<apdata, fbdata, time, aptime, fbtime>>
         ELSE /\ missing' = "none"
              /\ apdata' = LoadRows(apfile, 4)
              /\ fbdata' = fbfile
              /\ time' = lcfile
              /\ fbtime' = Zeros(Len(lcfile))
              /\ aptime' = Zeros(Len(lcfile))
              /\ pc' = "bench_masks" /\ err' = err
    /\ stdout' = <<>>
    /\ UNCHANGED <<i, rerun, benchFiles, n1, n2, n3, n4_i, x_sel, benchOthers>>

\* lines 447-453: the two sample masks; apdata[:,0] needs a 2-D array
BenchMasks ==
    /\ pc = "bench_masks"
    /\ IF LoadtxtNdim(apdata) # 2
       THEN Raise("IndexError") /\ UNCHANGED <<aptime, fbtime>>
       ELSE /\ aptime' = ApMask(apdata, time)
            /\ IF LoadtxtNdim(fbdata) # 2
               THEN Raise("IndexError") /\ UNCHANGED fbtime
               ELSE fbtime' = FbMask(fbdata, time) /\ pc' = "bench_ratios" /\ err' = err
    /\ UNCHANGED <<stdout, i, rerun, missing, benchFiles, apdata, fbdata, time, n1, n2, n3,
                   n4_i, x_sel, ret, benchOthers>>

\* lines 462-466: the first three ratios (float division raises on a zero denominator)
BenchRatios ==
    /\ pc = "bench_ratios"
    /\ n1' = <<Len(apdata), Len(fbdata)>>
    /\ IF Sum(fbtime) = 0
       THEN Raise("ZeroDivisionError") /\ UNCHANGED <<n2, n3, n4_i, i>>
       ELSE /\ n2' = <<Sum(aptime), Sum(fbtime)>>
            /\ n3' = <<Cardinality({idx \in DOMAIN time : fbtime[idx] = 1 /\ aptime[idx] = 1}),
                       Cardinality({idx \in DOMAIN time : fbtime[idx] = 1})>>
            /\ n4_i' = Zeros(Len(fbdata))
            /\ i' = 0
            /\ pc' = "bench_any" /\ err' = err
    /\ UNCHANGED <<stdout, rerun, missing, benchFiles, apdata, fbdata, time, aptime, fbtime,
                   x_sel, ret, benchOthers>>

\* lines 469-477: one iteration of the any-overlap loop
BenchAnyStep ==
    /\ pc = "bench_any"
    /\ i < Len(fbdata)
    /\ x_sel' = XAny(apdata, fbdata, i)
    /\ n4_i' = IF XAny(apdata, fbdata, i) # {} THEN [n4_i EXCEPT ![i + 1] = 1] ELSE n4_i
    /\ i' = i + 1
    /\ UNCHANGED <<pc, err, stdout, rerun, missing, benchFiles, apdata, fbdata, time, aptime,
                   fbtime, n1, n2, n3, ret, benchOthers>>

\* lines 479-482: n4 and the returned tuple; the locals are gone after the return
BenchReturn ==
    /\ pc = "bench_any"
    /\ i = Len(fbdata)
    /\ ret' = [returned |-> TRUE, N_ap |-> Len(apdata), N_fb |-> Len(fbdata),
               n1 |-> n1, n2 |-> n2, n3 |-> n3, n4 |-> <<Sum(n4_i), Len(fbdata)>>]
    /\ pc' = "idle"
    /\ i' = 0
    /\ apdata' = <<>> /\ fbdata' = <<>> /\ time' = <<>>
    /\ aptime' = <<>> /\ fbtime' = <<>>
    /\ n1' = NoRatio /\ n2' = NoRatio /\ n3' = NoRatio
    /\ n4_i' = <<>> /\ x_sel' = {}
    /\ UNCHANGED <<err, stdout, rerun, missing, benchFiles, benchOthers>>

BenchNext ==
    \/ BenchLoad
    \/ BenchMasks
    \/ BenchRatios
    \/ BenchAnyStep
    \/ BenchReturn

SpecBench == BenchInit /\ [][BenchNext]_vars

\* lines 124-155: fbeye_compare reads the two tables
FbeyeLoad ==
    /\ pc = "idle"
    /\ \E firstMissing \in {"none", "apfile", "fbeyefile"} :
         IF firstMissing # "none"
         THEN Raise("IOError") /\ missing' = firstMissing /\ UNCHANGED <<apdata, fbdata>>
         ELSE /\ missing' = "none"
              /\ apdata' = LoadRows(apfile, 5)
              /\ fbdata' = fbfile
              /\ pc' = "fbeye_loop" /\ err' = err
    /\ i' = 0
    /\ x_sel' = {}
    /\ stdout' = <<>>
    /\ UNCHANGED <<rerun, benchFiles, time, aptime, fbtime, n1, n2, n3, n4_i, ret,
                   benchOthers>>

\* lines 163-169: one iteration of the loop over range(len(fbdata[0,:])); the row
\* indices 0 and 1 of apdata and 2 and 3 of fbdata must exist
FbeyeStep ==
    /\ pc = "fbeye_loop"
    /\ IF LoadtxtNdim(fbdata) # 2
       THEN Raise("IndexError") /\ UNCHANGED <<i, x_sel>>
       ELSE /\ i < NumCols(fbdata)
            /\ IF LoadtxtNdim(apdata) # 2 \/ Len(fbdata) < 4
               THEN Raise("IndexError") /\ UNCHANGED <<i, x_sel>>
               ELSE /\ x_sel' = XAp(apdata, fbdata, i)
                    /\ i' = i + 1
                    /\ UNCHANGED <<pc, err>>
    /\ UNCHANGED <<stdout, rerun, missing, benchFiles, apdata, fbdata, time, aptime, fbtime,
                   n1, n2, n3, n4_i, ret, benchOthers>>

\* line 172: return
FbeyeReturn ==
    /\ pc = "fbeye_loop"
    /\ LoadtxtNdim(fbdata) = 2
    /\ i = NumCols(fbdata)
    /\ pc' = "idle"
    /\ i' = 0
    /\ apdata' = <<>> /\ fbdata' = <<>> /\ x_sel' = {}
    /\ UNCHANGED <<err, stdout, rerun, missing, benchFiles, time, aptime, fbtime, n1, n2, n3,
                   n4_i, ret, benchOthers>>

\* two kinds of flare suffice to tell the rows of a table apart
CompareIntervals == {<<1, 1>>, <<2, 3>>}

CompareInit ==
    /\ pc = "idle" /\ err = "none" /\ stdout = <<>> /\ i = 0
    /\ rerun = FALSE /\ missing = "none"
    /\ apfile \in {[header |-> h, rows |-> rows] :
                      h \in {4, 5},
                      rows \in SeqsUpTo({ApRow(iv) : iv \in CompareIntervals}, MaxCompareRows)}
    /\ fbfile \in SeqsUpTo({FbRow(iv) : iv \in CompareIntervals}, MaxCompareRows)
    /\ lcfile = TimeGrid
    /\ BenchLocalsUnset
    /\ ret = NoReturn
    /\ K2Unused
    /\ PaperUnused

CompareNext ==
    \/ FbeyeLoad
    \/ FbeyeStep
    \/ FbeyeReturn

SpecCompare == CompareInit /\ [][CompareNext]_vars

(***************************************************************************)
(* Claims about benchmark and fbeye_compare                                *)
(***************************************************************************)
\* two closed intervals share at least one time point
SharePoint(a0, a1, f0, f1) == a0 <= f1 /\ f0 <= a1

\* the appaloosa flares (0-based rows) whose [t_start, t_stop] meets that of FBEYE flare j
Overlapping(ap, fb, j) ==
    {r \in 0..(Len(ap) - 1) :
        SharePoint(Col(ap[r + 1], 0), Col(ap[r + 1], 1), Col(fb[j + 1], 2), Col(fb[j + 1], 3))}

\* C3: in benchmark's any-overlap loop, the n4_i entry of every FBEYE flare already
\* visited is 1 exactly when some appaloosa flare's [start, stop] shares a time point
\* with the flare's [t_start, t_stop], and 0 otherwise; entries not yet visited are 0.
C3_AnyOverlapIffSharedPoint ==
    pc = "bench_any" =>
        \A j \in 1..Len(fbdata) :
            n4_i[j] = (IF j <= i /\ Overlapping(apdata, fbdata, j - 1) # {} THEN 1 ELSE 0)

\* C3 witness: the loop is over; one FBEYE flare lies strictly inside an appaloosa
\* flare (entry 1), another is disjoint from every appaloosa flare (entry 0)
C3_Witness ==
    /\ pc = "bench_any" /\ i = Len(fbdata)
    /\ \E j \in 1..Len(fbdata) :
          /\ n4_i[j] = 1
          /\ \A r \in DOMAIN apdata :
                SharePoint(Col(apdata[r], 0), Col(apdata[r], 1),
                           Col(fbdata[j], 2), Col(fbdata[j], 3))
                => (Col(apdata[r], 0) < Col(fbdata[j], 2) /\ Col(apdata[r], 1) > Col(fbdata[j], 3))
    /\ \E j \in 1..Len(fbdata) : n4_i[j] = 0

SameRatio(p, q) == p[2] # 0 /\ q[2] # 0 /\ p[1] * q[2] = q[1] * p[2]

InAnyFlare(t, rows, c0, c1) ==
    \E r \in DOMAIN rows : t >= Col(rows[r], c0) /\ t <= Col(rows[r], c1)

\* C4: benchmark returns N_ap and N_fb, the numbers of appaloosa and FBEYE flares,
\* n1 = N_ap / N_fb, n2 = samples inside any appaloosa flare / samples inside any
\* FBEYE flare, n3 = samples inside both / samples inside any FBEYE flare, and
\* n4 = FBEYE flares met by an appaloosa flare / N_fb, an FBEYE flare being the
\* interval [t_start, t_stop] of its row.
C4_ReturnedMeasures ==
    ret.returned =>
        LET ap == LoadRows(apfile, 4)
            inAp == {idx \in DOMAIN lcfile : InAnyFlare(lcfile[idx], ap, 0, 1)}
            inFb == {idx \in DOMAIN lcfile : InAnyFlare(lcfile[idx], fbfile, 2, 3)}
            met == {j \in 1..Len(fbfile) : Overlapping(ap, fbfile, j - 1) # {}}
        IN  /\ ret.N_ap = Len(ap)
            /\ ret.N_fb = Len(fbfile)
            /\ SameRatio(ret.n1, <<Len(ap), Len(fbfile)>>)
            /\ SameRatio(ret.n2, <<Cardinality(inAp), Cardinality(inFb)>>)
            /\ SameRatio(ret.n3, <<Cardinality(inAp \cap inFb), Cardinality(inFb)>>)
            /\ SameRatio(ret.n4, <<Cardinality(met), Len(fbfile)>>)

\* C8: once benchmark has built fbtime, a sample is marked exactly when it lies in the
\* [t_start, t_stop] (columns 2 and 3) of some FBEYE flare, the interval the
\* any-overlap test uses.
C8_MaskUsesFlareTimes ==
    pc \in {"bench_ratios", "bench_any"} =>
        \A idx \in DOMAIN time :
            fbtime[idx] = (IF InAnyFlare(time[idx], fbdata, 2, 3) THEN 1 ELSE 0)

\* C9: every step of fbeye_compare's loop handles the next FBEYE flare and selects the
\* appaloosa flares benchmark's any-overlap test selects for that flare from the same
\* two files, and the loop ends after as many steps as there are FBEYE flares.
C9_SameSelectionAsBenchmark ==
    [][ /\ (pc = "fbeye_loop" /\ pc' = "fbeye_loop" /\ i' # i) =>
              /\ i < Len(fbfile)
              /\ x_sel' = XAny(LoadRows(apfile, 4), fbfile, i)
        /\ (pc = "fbeye_loop" /\ pc' = "idle") => i = Len(fbfile) ]_vars

(***************************************************************************)
(* paper1_plots                                                            *)
(*                                                                         *)
(* A row of condorfile is one data portion of a star: KICnumber, lsflag,   *)
(* dur [days], log(ed68), tot Nflares, sum ED and one flare rate per FFD   *)
(* bin.  Rates are whole flares per day; a per-bin mean rate (a sum of     *)
(* rates divided by a number of portions) is held as FfdScale times its    *)
(* value, and a float that may be NaN as [nan, v].                         *)
(***************************************************************************)
MaxPortions == 2
MaxInnerBins == 2

\* lines 566-568: np.arange(-5, 5, 0.2) between -10 and 10, in tenths of a dex; the
\* arange is cut after its first MaxInnerBins values
edbins == <<-100>> \o [j \in 1..MaxInnerBins |-> -50 + 2 * (j - 1)] \o <<100>>

\* edbins[1:]
BinEnergy == Tail(edbins)
NBins == Len(BinEnergy)

RECURSIVE Factorial(_)
Factorial(n) == IF n <= 1 THEN 1 ELSE n * Factorial(n - 1)
FfdScale == Factorial(MaxPortions)

NaN == [nan |-> TRUE, v |-> 0]
Num(x) == [nan |-> FALSE, v |-> x]
Add(p, q) == IF p.nan \/ q.nan THEN NaN ELSE Num(p.v + q.v)

Reverse(s) == [j \in 1..Len(s) |-> s[Len(s) + 1 - j]]

RECURSIVE CumSumAt(_, _)
CumSumAt(s, j) == IF j = 1 THEN s[1] ELSE Add(CumSumAt(s, j - 1), s[j])

\* np.cumsum: a NaN entry makes every later entry NaN
CumSum(s) == [j \in 1..Len(s) |-> CumSumAt(s, j)]

\* the rates of a portion: no flares, one flare a day in every bin, two in the highest
\* bin only
RateShapes ==
    { Const(NBins, 0), Const(NBins, 1),
      [b \in 1..NBins |-> IF b = NBins THEN 2 ELSE 0] }

\* log(ed68) of a portion: below every bin, between the two lowest bins, above every bin
Cutoffs == {-60, -49, 150}

\* a portion lasts 2 days; each flare has an equivalent duration of 3 seconds
Portion(id, cut, rates) ==
    [kic |-> id, lsflag |-> 0, dur |-> 2, ed68 |-> cut,
     nfl |-> 2 * Sum(rates), sumED |-> 6 * Sum(rates), rates |-> rates]

\* a portion of star 1 with 50 flares, of which a flare a day lies in each of the two
\* highest bins, and a summed equivalent duration of 5 seconds
ManyFlares ==
    [kic |-> 1, lsflag |-> 0, dur |-> 2, ed68 |-> -60, nfl |-> 50, sumED |-> 5,
     rates |-> [b \in 1..NBins |-> IF b >= NBins - 1 THEN 1 ELSE 0]]

\* star 1 has portions of every kind, star 2 only portions with the lowest cutoff
Portions ==
    {Portion(1, cut, rates) : cut \in Cutoffs, rates \in RateShapes}
        \cup {Portion(2, -60, rates) : rates \in RateShapes}
        \cup {ManyFlares}

KicRow(id) ==
    [kic_kepler_id |-> id, kic_gmag |-> 16, kic_rmag |-> 15, kic_imag |-> 13,
     kic_kmag |-> 12 + id, kic_logg |-> 4]

\* the catalogue lists star 1, and star 2 or not
KicFiles == {<<KicRow(1)>>, <<KicRow(1), KicRow(2)>>}

\* Table_Periodic.txt lists star 1 with a period of 7 days
RotFile == <<[kid |-> 1, Prot |-> 7]>>

\* energies(): log10 of the quiescent luminosity in the Kepler band, in tenths of a dex;
\* the interpolation along the isochrone is reduced to a linear relation in g - k
energies(gmag, kmag) == 300 + 5 * (gmag - kmag)

\* fdata.iloc[:,0].unique(): distinct values in order of first appearance
RECURSIVE Unique(_)
Unique(col) ==
    IF col = <<>> THEN <<>>
    ELSE LET before == Unique(SubSeq(col, 1, Len(col) - 1))
             last == col[Len(col)]
         IN  IF last \in Range(before) THEN before ELSE Append(before, last)

\* np.where(fdata[0].values == kicnum_c[k])[0], as the rows themselves
StarRowsFirstOnly(table, id) ==
    LET hits == {n \in 1..Len(table) : table[n].kic = id}
    IN  IF hits = {} THEN <<>> ELSE <<table[CHOOSE n \in hits : \A m \in hits : n <= m]>>

StarRows(table, id) ==
    LET F[n \in 0..Len(table)] ==
            IF n = 0 THEN <<>>
            ELSE IF table[n].kic = id THEN Append(F[n - 1], table[n]) ELSE F[n - 1]
    IN  F[Len(table)]

\* np.sum over one column of the rows
SumOf(rows, col) == Sum([n \in 1..Len(rows) |-> rows[n][col]])

\* the keys of a groupby: the distinct values, ascending
RECURSIVE SortedKeys(_)
SortedKeys(S) ==
    IF S = {} THEN <<>>
    ELSE LET least == CHOOSE x \in S : \A y \in S : x <= y
         IN  <<least>> \o SortedKeys(S \ {least})

\* fdata.groupby([0])[col].sum(): one entry per KIC number, in ascending order of the
\* number, holding the sum of the column over the rows of that number
GroupBySum(table, col) ==
    LET keys == SortedKeys({table[n].kic : n \in 1..Len(table)})
        Upto[key \in Range(keys), n \in 0..Len(table)] ==
            IF n = 0 THEN 0
            ELSE Upto[key, n - 1] + (IF table[n].kic = key THEN table[n][col] ELSE 0)
    IN  [j \in 1..Len(keys) |-> [key |-> keys[j], val |-> Upto[keys[j], Len(table)]]]

\* line 518
num_fl_tot == GroupBySum(fdata, "nfl")

\* line 658: np.where(edbins[1:] >= log(ed68))
OkBins(cut) == {b \in 1..NBins : BinEnergy[b] >= cut}

\* lines 651-671: fsum, fnorm, flare_tot and Nflare68tmp after the first n portions
RECURSIVE InnerLoop(_, _)
InnerLoop(rows, n) ==
    IF n = 0
    THEN [fsum |-> Zeros(NBins), fnorm |-> Zeros(NBins), flare_tot |-> Zeros(NBins),
          Nflare68tmp |-> 0]
    ELSE LET a == InnerLoop(rows, n - 1)
             p == rows[n]
             ok == OkBins(p.ed68)
         IN  IF ok = {} THEN a
             ELSE [fsum |-> [b \in 1..NBins |->
                                IF b \in ok THEN a.fsum[b] + p.rates[b] ELSE a.fsum[b]],
                   fnorm |-> [b \in 1..NBins |->
                                IF b \in ok THEN a.fnorm[b] + 1 ELSE a.fnorm[b]],
                   flare_tot |-> [b \in 1..NBins |-> a.flare_tot[b] + p.rates[b] * p.sumED],
                   Nflare68tmp |-> a.Nflare68tmp
                                     + Sum([b \in 1..NBins |-> p.rates[b] * p.sumED])]

\* fsum / fnorm, bin by bin: 0/0 is NaN
MeanRate(fs, fn) ==
    [b \in 1..NBins |-> IF fn[b] = 0 THEN NaN ELSE Num(fs[b] * (FfdScale \div fn[b]))]

\* line 687: np.cumsum(fsum[::-1]/fnorm[::-1])
FfdYNotReversed(fs, fn) == CumSum(MeanRate(fs, fn))

FfdY(fs, fn) == CumSum(Reverse(MeanRate(fs, fn)))

\* line 686: edbins[1:][::-1] + Lkp_i
FfdX(Lkp_i) == [j \in 1..NBins |-> Reverse(BinEnergy)[j] + Lkp_i]

\* _Perror(n, down=True) is finite exactly for n > 0 (it divides by n and by sqrt(n))
PerrorFinite(n) == n > 0

\* lines 690-694: the valid bins
FfdOk(y, tot, dur) ==
    {j \in 1..NBins :
        /\ ~y[j].nan /\ y[j].v > 0
        /\ PerrorFinite(Reverse(tot)[j]) /\ dur # 0}

Max(S) == CHOOSE x \in S : \A y \in S : y <= x

\* line 697: if len(ffd_ok[0])>0
AnyValidBin(ok) == Cardinality(ok) > 0

\* line 701: if len(ffd_ok[0])>1
EnoughToFitWithOne(ok) == Cardinality(ok) > 0

EnoughToFit(ok) == Cardinality(ok) > 1

\* twice np.nanmedian of a set of distinct values (in twentieths of a dex)
Median2(S) ==
    LET n == Cardinality(S)
        lower == CHOOSE x \in S : Cardinality({y \in S : y < x}) = (n - 1) \div 2
        upper == CHOOSE x \in S : Cardinality({y \in S : y < x}) = n \div 2
    IN  lower + upper

\* curve_fit and the evaluation of the fit at Epoint: the numerical outcome is one of
\* two representative results [slope, intercept, fit_E, fit_Eerr]
CurveFit == {[a |-> -1, b |-> 30, E |-> 1, Eerr |-> 1],
             [a |-> -2, b |-> 60, E |-> 2, Eerr |-> 3]}

\* np.sum(f[S]) over a set of indices
RECURSIVE SumOver(_, _)
SumOver(S, f) ==
    IF S = {} THEN 0
    ELSE LET x == CHOOSE y \in S : TRUE IN f[x] + SumOver(S \ {x}, f)

\* lines 531-535: the statistics file is opened for writing and gets its first lines
StatsHeader ==
    LET many == {j \in 1..Len(num_fl_tot) : num_fl_tot[j].val >= 25}
    IN  <<Line("This is the stats file for appaloosa.analysis.paper1_plots() "),
          LineAbout("N stars with 25 or more flares: ", Cardinality(many)),
          LineAbout("Total num flares on stars with 25 or more flares: ",
                    SumOver(many, [j \in 1..Len(num_fl_tot) |-> num_fl_tot[j].val]))>>

\* lines 582-583
Nflare_limit == 50
Nflare68_cut == 10

\* lines 1024 and 1036: np.isfinite(np.log10(ED_all / (dur_all * 60. * 60. * 24.)))
ClrFinite(ED, dur) == dur # 0 /\ ED * dur > 0

\* lines 1047-1048
okclr(a) ==
    {idx \in 1..Len(a.Nflare) :
        /\ a.Nflare68[idx] >= Nflare68_cut
        /\ ClrFinite(a.ED_all[idx], a.dur_all[idx])
        /\ a.Nflare[idx] >= Nflare_limit}

\* lines 1050-1054: the rule, the stars that pass, their flares, those with a period
StatsOkclr(a) ==
    <<LineAbout("OKCLR rules: Lfl/Lkp>0, Nflare>, Nflare68>", <<Nflare_limit, Nflare68_cut>>),
      LineAbout("# stars that pass final OKCLR cuts: ", Cardinality(okclr(a))),
      LineAbout("# flares on stars that pass final OKCLR cut: ", SumOver(okclr(a), a.Nflare)),
      LineAbout("# stars that pass OKCLR cut, and have Prot>0.1: ",
                Cardinality({idx \in okclr(a) : a.Prot_all[idx] > 0}))>>

PaperInit ==
    /\ pc = "idle" /\ err = "none" /\ stdout = <<>> /\ i = 0
    /\ rerun = FALSE /\ missing = "none"
    /\ fdata \in {t \in SeqsUpTo(Portions, MaxPortions) : t # <<>>}
    /\ kicdata \in KicFiles
    /\ rotdata = RotFile
    /\ PaperLocalsUnset
    /\ npz = NoNpz
    /\ looped = NoNpz
    /\ statsfile = <<>>
    /\ K2Unused
    /\ BenchUnused

\* lines 485-583: read the catalogues and the flare table, compute the luminosities
P1Call(r) ==
    /\ pc = "idle"
    /\ rerun' = r
    /\ \E firstMissing \in {"none", "kicfile", "condorfile", "isochrone", "rotfile"} :
         IF firstMissing \in {"kicfile", "condorfile"}
         THEN /\ Raise("IOError") /\ missing' = firstMissing
              /\ stdout' = <<>>
              /\ UNCHANGED <<kicnum_c, arrays, statsfile>>
         ELSE IF firstMissing \in {"isochrone", "rotfile"}
         THEN /\ Raise("IOError") /\ missing' = firstMissing
              /\ stdout' = <<LineAbout("total # flare candidates found: ", SumOf(fdata, "nfl"))>>
              /\ kicnum_c' = Unique([n \in 1..Len(fdata) |-> fdata[n].kic])
              /\ statsfile' = StatsHeader
              /\ UNCHANGED arrays
         ELSE /\ missing' = "none"
              /\ stdout' = <<LineAbout("total # flare candidates found: ", SumOf(fdata, "nfl"))>>
              /\ kicnum_c' = Unique([n \in 1..Len(fdata) |-> fdata[n].kic])
              /\ statsfile' = StatsHeader
              /\ arrays' = [NoArrays EXCEPT !.Prot_all = Const(Len(kicnum_c'), -99)]
              /\ pc' = IfRerun(r, "p1_init", "p1_load") /\ err' = err
    /\ UNCHANGED <<i, paperFiles, k, paperStar, npz, looped, paperOthers>>

\* lines 590-615: rerun=True sets up the arrays of the big loop
P1LoopInit ==
    /\ pc = "p1_init"
    /\ LET N == Len(kicnum_c)
       IN  arrays' = [Nflare |-> Zeros(N), Nflare68 |-> Zeros(N),
                      rate_E |-> Const(N, -99), fit_E |-> Const(N, -99),
                      fit_Eerr |-> Const(N, -99),
                      ffd_ab |-> Const(N, <<0, 0>>),
                      gr_all |-> Const(N, -99), gi_all |-> Const(N, -99),
                      meanE |-> <<>>, maxE |-> Const(N, -99),
                      Prot_all |-> arrays.Prot_all,
                      ED_all |-> Const(N, -99), dur_all |-> Const(N, -99),
                      logg_all |-> Const(N, -99)]
    /\ k' = 0
    /\ pc' = "p1_loop"
    /\ UNCHANGED <<err, stdout, i, rerun, missing, paperFiles, kicnum_c, paperStar, npz,
                   looped, statsfile, paperOthers>>

\* lines 617-782: one iteration of the big loop
P1Star ==
    /\ pc = "p1_loop"
    /\ k < Len(kicnum_c)
    /\ LET kk == k + 1
           id == kicnum_c[kk]
           star == StarRows(fdata, id)
           dur_k == SumOf(star, "dur")
           bigdata == StarRows([n \in 1..Len(kicdata) |->
                                   [kic |-> kicdata[n].kic_kepler_id, row |-> kicdata[n]]], id)
           acc == InnerLoop(star, Len(star))
           y == FfdY(acc.fsum, acc.fnorm)
           ok == FfdOk(y, acc.flare_tot, dur_k)
           rotmtch == {n \in 1..Len(rotdata) : rotdata[n].kid = id}
           a1 == [arrays EXCEPT !.Nflare[kk] = SumOf(star, "nfl"),
                                !.dur_all[kk] = dur_k,
                                !.ED_all[kk] = SumOf(star, "sumED")]
       IN  /\ mtch' = {n \in 1..Len(kicdata) : kicdata[n].kic_kepler_id = id}
           /\ \E fit \in CurveFit :
                LET kr == bigdata[1].row
                    x == FfdX(energies(kr.kic_gmag, kr.kic_kmag))
                    a2 == [a1 EXCEPT !.gr_all[kk] = kr.kic_gmag - kr.kic_rmag,
                                     !.gi_all[kk] = kr.kic_gmag - kr.kic_imag,
                                     !.logg_all[kk] = kr.kic_logg,
                                     !.Nflare68[kk] = acc.Nflare68tmp]
                    a3 == IF AnyValidBin(ok) THEN [a2 EXCEPT !.maxE[kk] = Max({x[j] : j \in ok})]
                          ELSE a2
                    a4 == IF EnoughToFit(ok)
                          THEN [a3 EXCEPT !.meanE = Append(@, Median2({x[j] : j \in ok})),
                                          !.fit_E[kk] = fit.E,
                                          !.ffd_ab[kk] = <<fit.a, fit.b>>,
                                          !.fit_Eerr[kk] = fit.Eerr]
                          ELSE a3
                    a5 == IF bigdata # <<>> THEN a4 ELSE a1
                IN  /\ fsum' = (IF bigdata # <<>> THEN acc.fsum ELSE Zeros(NBins))
                    /\ fnorm' = (IF bigdata # <<>> THEN acc.fnorm ELSE Zeros(NBins))
                    /\ flare_tot' = (IF bigdata # <<>> THEN acc.flare_tot ELSE flare_tot)
                    /\ ffd_x' = (IF bigdata # <<>> THEN x ELSE ffd_x)
                    /\ ffd_y' = (IF bigdata # <<>> THEN y ELSE ffd_y)
                    /\ ffd_ok' = (IF bigdata # <<>> THEN ok ELSE ffd_ok)
                    /\ IF Cardinality(rotmtch) > 1
                       THEN \* an array of several periods cannot be stored in Prot_all[k]
                            /\ Raise("ValueError")
                            /\ arrays' = a5
                            /\ k' = k
                       ELSE /\ arrays' = (IF rotmtch # {}
                                          THEN [a5 EXCEPT !.Prot_all[kk] =
                                                            rotdata[First(rotmtch)].Prot]
                                          ELSE a5)
                            /\ k' = k + 1
                            /\ UNCHANGED <<pc, err>>
    /\ UNCHANGED <<stdout, i, rerun, missing, paperFiles, kicnum_c, npz, looped, statsfile,
                   paperOthers>>

\* np.savez(ap_loop_file, Nflare=Nflare, ...): every array is stored under its keyword
Savez(a) ==
    [Nflare |-> a.Nflare, Nflare68 |-> a.Nflare68, rate_E |-> a.rate_E, fit_E |-> a.fit_E,
     fit_Eerr |-> a.fit_Eerr, ffd_ab |-> a.ffd_ab, gr_all |-> a.gr_all, gi_all |-> a.gi_all,
     meanE |-> a.meanE, maxE |-> a.maxE, Prot_all |-> a.Prot_all, ED_all |-> a.ED_all,
     dur_all |-> a.dur_all, logg_all |-> a.logg_all]

\* lines 794-808: every array is read back from the key named in its assignment
NpzLoadNflareTwice(z) ==
    [Nflare |-> z.Nflare, rate_E |-> z.rate_E, fit_E |-> z.fit_E, fit_Eerr |-> z.fit_Eerr,
     ffd_ab |-> z.ffd_ab, gr_all |-> z.gr_all, gi_all |-> z.gi_all, meanE |-> z.meanE,
     maxE |-> z.maxE, Prot_all |-> z.Prot_all, dur_all |-> z.dur_all, ED_all |-> z.ED_all,
     logg_all |-> z.logg_all, Nflare68 |-> z.Nflare]

NpzLoad(z) ==
    [Nflare |-> z.Nflare, rate_E |-> z.rate_E, fit_E |-> z.fit_E, fit_Eerr |-> z.fit_Eerr,
     ffd_ab |-> z.ffd_ab, gr_all |-> z.gr_all, gi_all |-> z.gi_all, meanE |-> z.meanE,
     maxE |-> z.maxE, Prot_all |-> z.Prot_all, dur_all |-> z.dur_all, ED_all |-> z.ED_all,
     logg_all |-> z.logg_all, Nflare68 |-> z.Nflare68]

\* lines 784-788: the big loop is over, the arrays are saved
P1Save ==
    /\ pc = "p1_loop"
    /\ k = Len(kicnum_c)
    /\ npz' = [present |-> TRUE, rows |-> Savez(arrays)]
    /\ looped' = [present |-> TRUE, rows |-> arrays]
    /\ pc' = "p1_post"
    /\ UNCHANGED <<err, stdout, i, rerun, missing, paperFiles, kicnum_c, k, arrays, paperStar,
                   statsfile, paperOthers>>

\* lines 792-808: rerun=False pulls the arrays back in
P1Load ==
    /\ pc = "p1_load"
    /\ IF ~npz.present
       THEN Raise("IOError") /\ missing' = "ap_loop_file" /\ UNCHANGED arrays
       ELSE /\ arrays' = NpzLoad(npz.rows)
            /\ missing' = missing
            /\ pc' = "p1_post" /\ err' = err
    /\ UNCHANGED <<stdout, i, rerun, paperFiles, kicnum_c, k, paperStar, npz, looped,
                   statsfile, paperOthers>>

\* lines 811-1254: the figures and the statistics are made from the arrays, then the
\* routine returns; meanE[np.where(...)] (line 814) needs meanE to be an array, and the
\* big loop leaves it a list when no star had two valid bins.  Of the statistics the
\* OKCLR lines are kept; the closing list of the 50 most energetic stars (lines
\* 1241-1250) belongs to samples of at least 50 stars and is left out.
P1Post ==
    /\ pc = "p1_post"
    /\ IF rerun /\ arrays.meanE = <<>>
       THEN /\ Raise("TypeError")
            /\ UNCHANGED <<rerun, kicnum_c, k, arrays, paperStar, statsfile>>
       ELSE /\ pc' = "idle" /\ err' = err
            /\ statsfile' = statsfile \o StatsOkclr(arrays)
            /\ rerun' = FALSE
            /\ kicnum_c' = <<>> /\ k' = 0
            /\ arrays' = NoArrays
            /\ fsum' = <<>> /\ fnorm' = <<>> /\ flare_tot' = <<>>
            /\ ffd_x' = <<>> /\ ffd_y' = <<>> /\ ffd_ok' = {}
            /\ mtch' = {}
    /\ UNCHANGED <<stdout, i, missing, paperFiles, npz, looped, paperOthers>>

PaperNext ==
    \/ \E r \in BOOLEAN : P1Call(r)
    \/ P1LoopInit
    \/ P1Star
    \/ P1Save
    \/ P1Load
    \/ P1Post

SpecPaper == PaperInit /\ [][PaperNext]_vars

(***************************************************************************)
(* Claims about paper1_plots                                               *)
(***************************************************************************)
\* the star of the last finished iteration of the big loop, and its rows of fdata
LastStar == kicnum_c[k]
LastRows == StarRows(fdata, LastStar)

\* the portions of the star that count towards bin b
Contributors(b) == {n \in 1..Len(LastRows) : BinEnergy[b] >= LastRows[n].ed68}

\* FfdScale times the mean rate in bin b over the contributing portions (NaN if none)
ContributorsMean(b) ==
    IF Contributors(b) = {} THEN NaN
    ELSE Num((FfdScale * SumOver(Contributors(b), [n \in 1..Len(LastRows) |-> LastRows[n].rates[b]]))
                 \div Cardinality(Contributors(b)))

\* the sum of the mean rates of the bins from b upward (NaN if any of them is)
MeanFromBinUp(b) ==
    IF \E c \in b..NBins : ContributorsMean(c).nan THEN NaN
    ELSE Num(SumOver(b..NBins, [c \in 1..NBins |-> ContributorsMean(c).v]))

\* C7: after the iteration of a star with a KIC match, entry j of ffd_y belongs to the
\* j-th highest bin and is the sum, over that bin and all higher ones, of the mean rate
\* of the portions whose 68% cutoff is at or below the bin's energy; and of two bins
\* with finite ffd_y the one of higher energy never has the larger ffd_y.
C7_FfdCumulativeFromTop ==
    (pc \in {"p1_loop", "p1_post"} /\ rerun /\ k >= 1 /\ mtch # {}) =>
        /\ \A j \in 1..NBins :
              /\ ffd_x[j] = BinEnergy[NBins + 1 - j]
                              + energies(kicdata[First(mtch)].kic_gmag, kicdata[First(mtch)].kic_kmag)
              /\ ffd_y[j] = MeanFromBinUp(NBins + 1 - j)
        /\ \A j1, j2 \in 1..NBins :
              (ffd_x[j1] < ffd_x[j2] /\ ~ffd_y[j1].nan /\ ~ffd_y[j2].nan)
                  => ffd_y[j1].v >= ffd_y[j2].v

\* C7 witness: a matched star has two portions with different cutoffs, so that its bins
\* average over different numbers of portions, and its ffd_y is finite and positive in
\* every bin and larger in the lowest bin than in the highest
C7_Witness ==
    /\ pc = "p1_loop" /\ rerun /\ k >= 1 /\ mtch # {}
    /\ \E b1, b2 \in 1..NBins : fnorm[b1] > fnorm[b2] /\ fnorm[b2] > 0
    /\ \A j \in 1..NBins : ~ffd_y[j].nan /\ ffd_y[j].v > 0
    /\ ffd_y[NBins].v > ffd_y[1].v

\* C6: when a rerun=False run of paper1_plots reaches the code after the big loop, each
\* of its fourteen per-star arrays equals the array of the same name the latest
\* finished big loop (a rerun=True run on the same input files) ended with.
C6_NpzRoundTrip ==
    (pc = "p1_post" /\ ~rerun /\ looped.present) => arrays = looped.rows

\* C6 witness: a rerun=False run stands after the load; the rerun=True run before it
\* fitted a star whose Nflare68 differs from its Nflare, and left another unfitted
C6_Witness ==
    /\ pc = "p1_post" /\ ~rerun /\ looped.present
    /\ \E n \in 1..Len(arrays.Nflare) :
          /\ arrays.fit_E[n] # -99 /\ arrays.maxE[n] # -99
          /\ arrays.Nflare68[n] # arrays.Nflare[n]
    /\ \E n \in 1..Len(arrays.Nflare) : arrays.fit_E[n] = -99 /\ arrays.ffd_ab[n] = <<0, 0>>
    /\ arrays.meanE # <<>>

(***************************************************************************)
(* All routines together: one working directory per routine, each with one *)
(* set of input files; any routine can be invoked whenever none is running *)
(***************************************************************************)
AllInit ==
    \/ /\ K2Init
       /\ Len(kid) = 2
       /\ kic[1].num = 1 /\ kic[2].num = 2
       /\ ptab[1].num = 0 /\ ptab[2].num = 1
    \/ /\ BenchInit
       /\ apfile.rows = <<ApRow(<<1, 2>>), ApRow(<<3, 3>>)>>
       /\ fbfile = <<FbRow(<<1, 1>>), FbRow(<<2, 3>>)>>
    \/ /\ CompareInit
       /\ apfile.header = 5
       /\ apfile.rows = <<ApRow(<<1, 1>>), ApRow(<<2, 3>>)>>
       /\ fbfile = <<FbRow(<<1, 1>>), FbRow(<<1, 1>>), FbRow(<<2, 3>>), FbRow(<<2, 3>>)>>
    \/ /\ PaperInit
       /\ kicdata = <<KicRow(1)>>
       /\ fdata = <<Portion(1, -49, Const(NBins, 1)), Portion(2, -60, Const(NBins, 1))>>

AllNext ==
    \/ K2Next
    \/ BenchNext
    \/ CompareNext
    \/ PaperNext

SpecAll == AllInit /\ [][AllNext]_vars

(***************************************************************************)
(* Claims about missing input files                                        *)
(***************************************************************************)
NotFoundPrinted == \E n \in DOMAIN stdout : stdout[n].text = " was not found!"

\* C2 (as stated): whenever a read could not open its input file, a warning has been
\* printed and the routine has not ended with an unhandled IOError.
C2_MissingFileWarnedAndSkipped ==
    missing # "none" => (NotFoundPrinted /\ err # "IOError")

\* C2 (amended): only the read of an object's .flare file in k2_mtg_plots' loop is
\* guarded: after it fails a warning has been printed and no IOError is raised.  After
\* any other read fails (object list, catalogues, caches, flare tables, light curve,
\* isochrone) the routine has ended with an unhandled IOError and printed no warning;
\* and an IOError arises in no other way.
C2_OnlyFlareReadHandled ==
    /\ missing = ".flare" => (NotFoundPrinted /\ err # "IOError")
    /\ missing \notin {"none", ".flare"} =>
          (pc = "error" /\ err = "IOError" /\ ~NotFoundPrinted)
    /\ err = "IOError" => missing \notin {"none", ".flare"}

\* C2 witness: paper1_plots ended with an IOError because energies() could not open
\* the isochrone
C2_Witness ==
    /\ pc = "error" /\ err = "IOError" /\ missing = "isochrone"
    /\ fdata # <<>> /\ kicnum_c # <<>>

(***************************************************************************)
(* Claims about rerun=False                                                *)
(***************************************************************************)
\* C12: while k2_mtg_plots or paper1_plots runs with rerun=False it never stands in its
\* per-object or per-star loop, and no step of it changes outfile or
\* ap_analysis_loop.npz; it reaches its plotting code only from the read of the cache.
C12_RerunFalseOnlyReads ==
    [][ ~rerun' =>
          /\ pc' \notin {"k2_ingest", "k2_loop", "p1_init", "p1_loop"}
          /\ outfile' = outfile
          /\ npz' = npz
          /\ (~rerun /\ pc' = "k2_plot") => (pc = "k2_read_cache" /\ outfile.present)
          /\ (~rerun /\ pc' = "p1_post") => (pc = "p1_load" /\ npz.present) ]_vars

\* C12 witness: a rerun=False run of paper1_plots stands after the load of the cache a
\* rerun=True run over two stars wrote, and the cache is as that run left it
C12_Witness ==
    /\ pc = "p1_post" /\ ~rerun /\ k = 0
    /\ npz.present /\ npz.rows = looped.rows
    /\ Len(arrays.Nflare) = 2

\* the entry of a grouped series for one KIC number
AtKey(series, key) == series[CHOOSE j \in 1..Len(series) : series[j].key = key].val

\* C13: for every star the big loop has visited, Nflare[k] equals the entry of
\* num_fl_tot for that star's KIC number; after the loop this is so for every star, and
\* num_fl_tot has exactly one entry per star of kicnum_c.
C13_NflareIsGroupedTotal ==
    (pc \in {"p1_loop", "p1_post"} /\ rerun) =>
        /\ \A idx \in 1..k : arrays.Nflare[idx] = AtKey(num_fl_tot, kicnum_c[idx])
        /\ Len(num_fl_tot) = Len(kicnum_c)
        /\ {num_fl_tot[j].key : j \in 1..Len(num_fl_tot)} = Range(kicnum_c)
        /\ pc = "p1_post" => k = Len(kicnum_c)

\* C13 witness: the loop is over for a star with two portions that both hold flares, in
\* different numbers
C13_Witness ==
    /\ pc = "p1_post" /\ rerun /\ Len(kicnum_c) = 1 /\ Len(fdata) = 2
    /\ fdata[1].nfl > 0 /\ fdata[2].nfl > fdata[1].nfl
    /\ arrays.Nflare[1] = fdata[1].nfl + fdata[2].nfl

\* C14: after the iteration of a star with a KIC match, flare_tot holds in every bin
\* the sum, over the star's data portions, of the portion's rate in that bin times the
\* portion's duration in days.
C14_FlareTotIsRateTimesDuration ==
    (pc \in {"p1_loop", "p1_post"} /\ rerun /\ k >= 1 /\ mtch # {}) =>
        \A b \in 1..NBins :
            flare_tot[b] = Sum([n \in 1..Len(LastRows) |->
                                   LastRows[n].rates[b] * LastRows[n].dur])

\* the flares of one portion in the bins at or above its 68% cutoff: rate times duration
FlaresAbove68(p) ==
    Sum([b \in 1..NBins |-> IF BinEnergy[b] >= p.ed68 THEN p.rates[b] * p.dur ELSE 0])

\* C15: for every star of the KIC catalogue the big loop has visited, Nflare68[k] is the
\* sum over the star's data portions of the flares in the bins at or above the portion's
\* log(ed68) cutoff; the bins below the cutoff add nothing.
C15_Nflare68CountsAboveCutoff ==
    (pc \in {"p1_loop", "p1_post"} /\ rerun) =>
        \A idx \in 1..k :
            (\E n \in 1..Len(kicdata) : kicdata[n].kic_kepler_id = kicnum_c[idx]) =>
                arrays.Nflare68[idx] =
                    LET rows == StarRows(fdata, kicnum_c[idx])
                    IN  Sum([n \in 1..Len(rows) |-> FlaresAbove68(rows[n])])

\* the valid FFD bins of the star an iteration has just handled: none for a star that
\* is not in the KIC catalogue, whose FFD is never made
ValidBinsAfter == IF mtch' = {} THEN {} ELSE ffd_ok'

\* C16: an iteration of the big loop assigns maxE[k] exactly when the star has at least
\* one valid FFD bin, and assigns fit_E[k], fit_Eerr[k], ffd_ab[:,k] and appends one
\* value to meanE exactly when it has at least two; otherwise the entries of the star
\* keep -99, -99, -99 and (0, 0) and meanE keeps its length. The entries of the other
\* stars are not touched.
C16_FitOnlyWithTwoValidBins ==
    [][ (pc = "p1_loop" /\ rerun /\ k' = k + 1) =>
          LET a == arrays'
              n == Cardinality(ValidBinsAfter)
          IN  /\ IF n >= 1
                 THEN a.maxE[k'] = Max({ffd_x'[j] : j \in ValidBinsAfter})
                 ELSE a.maxE[k'] = -99
              /\ IF n >= 2
                 THEN /\ Len(a.meanE) = Len(arrays.meanE) + 1
                      /\ \E fit \in CurveFit :
                            /\ a.fit_E[k'] = fit.E /\ a.fit_Eerr[k'] = fit.Eerr
                            /\ a.ffd_ab[k'] = <<fit.a, fit.b>>
                 ELSE /\ a.meanE = arrays.meanE
                      /\ a.fit_E[k'] = -99 /\ a.fit_Eerr[k'] = -99
                      /\ a.ffd_ab[k'] = <<0, 0>>
              /\ \A idx \in 1..Len(kicnum_c) :
                    idx # k' =>
                       /\ a.maxE[idx] = arrays.maxE[idx]
                       /\ a.fit_E[idx] = arrays.fit_E[idx]
                       /\ a.fit_Eerr[idx] = arrays.fit_Eerr[idx]
                       /\ a.ffd_ab[idx] = arrays.ffd_ab[idx] ]_vars

\* C16 witness: the first star had exactly one valid bin (maxE assigned, no fit), the
\* second star at least two (maxE, the fit and one meanE value)
C16_Witness ==
    /\ pc = "p1_loop" /\ rerun /\ k = 2 /\ mtch # {} /\ Cardinality(ffd_ok) >= 2
    /\ arrays.maxE[1] # -99 /\ arrays.fit_E[1] = -99 /\ arrays.ffd_ab[1] = <<0, 0>>
    /\ arrays.maxE[2] # -99 /\ arrays.fit_E[2] # -99 /\ arrays.ffd_ab[2] # <<0, 0>>
    /\ Len(arrays.meanE) = 1

\* the stars the written rule lets pass: Lfl/Lkp > 0, Nflare > Nflare_limit and
\* Nflare68 > Nflare68_cut
PassWrittenRule(a) ==
    {idx \in 1..Len(a.Nflare) :
        /\ a.dur_all[idx] # 0 /\ a.ED_all[idx] * a.dur_all[idx] > 0
        /\ a.Nflare[idx] > Nflare_limit
        /\ a.Nflare68[idx] > Nflare68_cut}

\* C17: when paper1_plots writes the OKCLR lines, the number of stars it reports is the
\* number of stars with Lfl/Lkp > 0, Nflare > Nflare_limit and Nflare68 > Nflare68_cut,
\* as the rule line written just before says, and the number of flares it reports is
\* the sum of Nflare over exactly those stars.
C17_OkclrFollowsWrittenRule ==
    [][ (pc = "p1_post" /\ pc' = "idle") =>
          LET n == Len(statsfile')
          IN  /\ n = Len(statsfile) + 4
              /\ statsfile'[n - 3].obj = <<50, 10>>
              /\ statsfile'[n - 2].obj = Cardinality(PassWrittenRule(arrays))
              /\ statsfile'[n - 1].obj = SumOver(PassWrittenRule(arrays), arrays.Nflare) ]_vars

====
